---- MODULE Spec2Model ----
(***************************************************************************)
(* Sales Call Analyzer (TH): the App component's analysis orchestration.   *)
(* State is the component's useState fields; actions are the event         *)
(* handlers, effects and promise continuations of App.                     *)
(***************************************************************************)
EXTENDS Integers, Sequences, FiniteSets, TLC

(* ---------- optional values: null is the empty tuple ---------- *)
None == <<>>
Some(x) == <<x>>
IsSome(o) == o # <<>>
Get(o) == o[1]

(* ---------- characters and strings as sequences of characters ---------- *)
Digits == {"0", "1", "2", "3", "4", "5", "6", "7", "8", "9"}
Whitespace == {" "}

\* String.prototype.replace(/\D/g, ''): keep the digits, in order
StripNonDigits(s) == SelectSeq(s, LAMBDA c : c \in Digits)

RECURSIVE TrimStart(_)
TrimStart(s) ==
  IF s = <<>> THEN <<>>
  ELSE IF Head(s) \in Whitespace THEN TrimStart(Tail(s)) ELSE s

RECURSIVE TrimEnd(_)
TrimEnd(s) ==
  IF s = <<>> THEN <<>>
  ELSE IF s[Len(s)] \in Whitespace THEN TrimEnd(SubSeq(s, 1, Len(s) - 1)) ELSE s

\* String.prototype.trim()
Trim(s) == TrimEnd(TrimStart(s))

(* ---------- enum InputMode ---------- *)
TEXT == "text"
AUDIO == "audio"
InputMode == {TEXT, AUDIO}

\* the outbound marker of CallMetadata.callType (Thai "thor ok"); every other
\* callType takes the inbound branch
Outbound == "thor-ok"
Inbound == "thor-khao"

(* ---------- user-visible messages ---------- *)
ApiKeyMsg == "API Key is not configured. Please ensure API_KEY is set in your environment. This application cannot function without it."
PasteMsg == "Please paste a transcript."
UploadMsg == "Please upload an audio file."
NoResultMsg == "Analysis failed to produce a result. The response might be empty or in an unexpected format."
UnknownMsg == "An unknown error occurred during analysis."
GoogleMsg == "Could not initialize Google services. Please check your connection and API key settings."
AnalysisFailedPrefix == "Analysis failed: "

(* ---------- input domains ---------- *)
Ph1 == <<"1">>
Ph2 == <<"2">>
PhNoDigits == <<"x">>

\* a file name is its underscore-separated fields (extension dropped)
FieldsOf(ct, src, dst) == <<"2024-01-15", "10-30", ct, src, dst>>
BadName == <<"recording">>
FileNames ==
  { BadName,
    FieldsOf(Outbound, Ph1, Ph2),
    FieldsOf(Inbound, Ph1, Ph2),
    FieldsOf(Outbound, Ph1, <<>>),
    FieldsOf(Outbound, PhNoDigits, Ph2),
    FieldsOf(Inbound, PhNoDigits, Ph2) }
Files == { [name |-> n] : n \in FileNames }

Texts == { <<>>, <<" ", " ">>, <<" ", "a", " ">> }

Salespersons1 ==
  << [name |-> "Ann", phone |-> <<"-", "1">>],
     [name |-> "Bob", phone |-> <<"-">>],
     [name |-> "Cat", phone |-> <<>>],
     [name |-> "Dan", phone |-> <<"1">>] >>
History1 ==
  << [customerName |-> "K1", phone |-> <<"2">>],
     [customerName |-> "K2", phone |-> <<>>],
     [customerName |-> "K3", phone |-> <<"2", "-">>],
     [customerName |-> "K4", phone |-> <<"-", "-">>] >>
DataContexts ==
  { [productContext |-> Some("products"), salespersons |-> Salespersons1, customerHistory |-> History1],
    [productContext |-> None, salespersons |-> <<>>, customerHistory |-> <<>>] }

Results == {"R1", "R2"}

\* what the remote analysis promise can settle with
RemoteOutcomes ==
  { [kind |-> "resolve", value |-> Some(r), isError |-> FALSE, message |-> ""] : r \in Results }
  \cup { [kind |-> "resolve", value |-> None, isError |-> FALSE, message |-> ""] }
  \cup { [kind |-> "reject", value |-> None, isError |-> e, message |-> m] :
           e \in BOOLEAN, m \in {"", "boom"} }

VARIABLES
  apiKey,                     \* process.env.API_KEY is set
  gapiState,                  \* "off" | "loading" | "ready" | "failed"
  isGapiReady,
  analysisResult, isLoading, error,
  currentInputMode, transcriptText, audioFile, dataContext,
  callMetadata, identifiedSalesperson, relevantHistoryForDisplay,
  remote,                     \* outstanding remote analysis calls
  completed,                  \* some remote analysis has settled
  ev                          \* the last event handled

vars == <<apiKey, gapiState, isGapiReady, analysisResult, isLoading, error,
          currentInputMode, transcriptText, audioFile, dataContext,
          callMetadata, identifiedSalesperson, relevantHistoryForDisplay,
          remote, completed, ev>>

NoOutcome == [kind |-> "none", value |-> None, isError |-> FALSE, message |-> ""]
Event(n) == [name |-> n, called |-> FALSE, parsed |-> FALSE,
             spField |-> "none", custField |-> "none", outcome |-> NoOutcome]

(* ---------- utils/filenameParser ---------- *)
\* a name parses when it has the five structured fields
\* date_time_callType_sourcePhone_destinationPhone
parseCallFilename(filename) ==
  IF Len(filename) = 5
  THEN Some([date |-> filename[1], time |-> filename[2], callType |-> filename[3],
             sourcePhone |-> filename[4], destinationPhone |-> filename[5],
             originalFilename |-> filename])
  ELSE None

(* ---------- InputArea ---------- *)
\* the Analyze button is offered only while no analysis is loading
AnalyzeEnabled(loading) == ~loading

(* ---------- handleAnalyze, step by step ---------- *)
\* the credential check left out
ApiKeyMissing_NoCheck(key) == FALSE

\* if (!process.env.API_KEY)
ApiKeyMissing(key) == ~key

\* the loading flag not raised on entry
LoadingOnEntry_NotRaised == FALSE

\* setIsLoading(true) on entry
LoadingOnEntry == TRUE

\* dataContext?.salespersons ?? null
SalespersonList(dc) == IF IsSome(dc) THEN Some(Get(dc).salespersons) ELSE None
\* dataContext?.customerHistory ?? null
CustomerHistory(dc) == IF IsSome(dc) THEN Some(Get(dc).customerHistory) ELSE None
\* dataContext?.productContext ?? null
ProductPromptContext(dc) == IF IsSome(dc) THEN Get(dc).productContext ELSE None

\* if (currentInputMode === InputMode.AUDIO && audioFile) parsedMeta = parseCallFilename(audioFile.name)
ParsedMeta(mode, file) ==
  IF mode = AUDIO /\ IsSome(file) THEN parseCallFilename(Get(file).name) ELSE None

\* the direction test left out: always the source phone
SalespersonPhoneField_AlwaysSource(callType) == "sourcePhone"

\* parsedMeta.callType === outbound ? parsedMeta.sourcePhone : parsedMeta.destinationPhone
SalespersonPhoneField(callType) ==
  IF callType = Outbound THEN "sourcePhone" ELSE "destinationPhone"

\* parsedMeta.callType === outbound ? parsedMeta.destinationPhone : parsedMeta.sourcePhone
CustomerPhoneField(callType) ==
  IF callType = Outbound THEN "destinationPhone" ELSE "sourcePhone"

\* sp.phone && sp.phone.replace(/\D/g, '') === salespersonPhone.replace(/\D/g, '')
SalespersonMatches(sp, salespersonPhone) ==
  sp.phone # <<>> /\ StripNonDigits(sp.phone) = StripNonDigits(salespersonPhone)

\* record.phone && record.phone.replace(/\D/g, '') === customerPhone.replace(/\D/g, '')
HistoryMatches(record, customerPhone) ==
  record.phone # <<>> /\ StripNonDigits(record.phone) = StripNonDigits(customerPhone)

Min(S) == CHOOSE m \in S : \A k \in S : m <= k

\* Array.prototype.find: the first element satisfying the test, null when none
FindSalesperson(list, salespersonPhone) ==
  LET hits == { i \in 1..Len(list) : SalespersonMatches(list[i], salespersonPhone) }
  IN IF hits = {} THEN None ELSE Some(list[Min(hits)])

\* Array.prototype.filter
FilterHistory(list, customerPhone) ==
  SelectSeq(list, LAMBDA record : HistoryMatches(record, customerPhone))

SalespersonToUse(parsedMeta, salespersonList) ==
  IF IsSome(parsedMeta) /\ IsSome(salespersonList) /\ Len(Get(salespersonList)) > 0
  THEN LET salespersonPhone ==
             Get(parsedMeta)[SalespersonPhoneField(Get(parsedMeta).callType)]
       IN IF salespersonPhone # <<>>
          THEN FindSalesperson(Get(salespersonList), salespersonPhone)
          ELSE None
  ELSE None

\* the whole history passed on when nothing was filtered
RelevantCustomerHistory_Unfiltered(parsedMeta, customerHistory) ==
  IF IsSome(parsedMeta) /\ IsSome(customerHistory)
  THEN LET customerPhone ==
             Get(parsedMeta)[CustomerPhoneField(Get(parsedMeta).callType)]
       IN IF customerPhone # <<>>
          THEN Some(FilterHistory(Get(customerHistory), customerPhone))
          ELSE customerHistory
  ELSE customerHistory

\* an empty filter result turned into null
RelevantCustomerHistory_NullWhenEmpty(parsedMeta, customerHistory) ==
  IF IsSome(parsedMeta) /\ IsSome(customerHistory)
  THEN LET customerPhone ==
             Get(parsedMeta)[CustomerPhoneField(Get(parsedMeta).callType)]
           kept == FilterHistory(Get(customerHistory), customerPhone)
       IN IF customerPhone # <<>> /\ kept # <<>> THEN Some(kept) ELSE None
  ELSE None

RelevantCustomerHistory(parsedMeta, customerHistory) ==
  IF IsSome(parsedMeta) /\ IsSome(customerHistory)
  THEN LET customerPhone ==
             Get(parsedMeta)[CustomerPhoneField(Get(parsedMeta).callType)]
       IN IF customerPhone # <<>>
          THEN Some(FilterHistory(Get(customerHistory), customerPhone))
          ELSE None
  ELSE None

\* the transcript tested without trimming
TranscriptMissing_NoTrim(text) == text = <<>>

\* !transcriptText.trim()
TranscriptMissing(text) == Trim(text) = <<>>

\* !audioFile
AudioFileMissing(file) == file = None

\* the catch block's message
CatchMessage(err) ==
  IF err.isError THEN AnalysisFailedPrefix \o err.message ELSE UnknownMsg

\* which fields of parsedMeta the run read for the two sides
UsedSalespersonField(parsedMeta, salespersonList) ==
  IF IsSome(parsedMeta) /\ IsSome(salespersonList) /\ Len(Get(salespersonList)) > 0
  THEN SalespersonPhoneField(Get(parsedMeta).callType) ELSE "none"
UsedCustomerField(parsedMeta, customerHistory) ==
  IF IsSome(parsedMeta) /\ IsSome(customerHistory)
  THEN CustomerPhoneField(Get(parsedMeta).callType) ELSE "none"

(* ---------- initial state: App mounted ---------- *)
Init ==
  /\ apiKey \in BOOLEAN
  /\ gapiState \in {"off", "loading"}
  /\ isGapiReady = FALSE
  /\ analysisResult = None
  /\ isLoading = FALSE
  /\ error = None
  /\ currentInputMode = TEXT
  /\ transcriptText = <<>>
  /\ audioFile = None
  /\ dataContext = None
  /\ callMetadata = None
  /\ identifiedSalesperson = None
  /\ relevantHistoryForDisplay = None
  /\ remote = <<>>
  /\ completed = FALSE
  /\ ev = Event("mount")

inputs == <<currentInputMode, transcriptText, audioFile, dataContext>>
env == <<apiKey, gapiState, isGapiReady>>
display == <<callMetadata, identifiedSalesperson, relevantHistoryForDisplay>>

(* ---------- handleAnalyze up to its first await or return ---------- *)
HandleAnalyze ==
  IF ApiKeyMissing(apiKey)
  THEN /\ error' = Some(ApiKeyMsg)
       /\ isLoading' = FALSE
       /\ analysisResult' = None
       /\ ev' = Event("analyze")
       /\ UNCHANGED <<display, remote>>
  ELSE LET productPromptContext == ProductPromptContext(dataContext)
           salespersonList == SalespersonList(dataContext)
           customerHistory == CustomerHistory(dataContext)
           parsedMeta == ParsedMeta(currentInputMode, audioFile)
           salespersonToUse == SalespersonToUse(parsedMeta, salespersonList)
           relevantCustomerHistory == RelevantCustomerHistory(parsedMeta, customerHistory)
           invalid == IF currentInputMode = TEXT
                      THEN TranscriptMissing(transcriptText)
                      ELSE AudioFileMissing(audioFile)
           call == [fn |-> IF currentInputMode = TEXT THEN "analyzeTextTranscript"
                                                      ELSE "analyzeAudioFile",
                    input |-> IF currentInputMode = TEXT THEN Some(transcriptText)
                                                         ELSE audioFile,
                    productContext |-> productPromptContext,
                    history |-> relevantCustomerHistory,
                    salesperson |-> salespersonToUse]
       IN /\ callMetadata' = parsedMeta
          /\ identifiedSalesperson' = salespersonToUse
          /\ relevantHistoryForDisplay' = relevantCustomerHistory
          /\ analysisResult' = None
          /\ ev' = [Event("analyze") EXCEPT
                      !.called = ~invalid,
                      !.parsed = (currentInputMode = AUDIO /\ IsSome(audioFile)),
                      !.spField = UsedSalespersonField(parsedMeta, salespersonList),
                      !.custField = UsedCustomerField(parsedMeta, customerHistory)]
          /\ IF invalid
             THEN /\ error' = Some(IF currentInputMode = TEXT THEN PasteMsg ELSE UploadMsg)
                  /\ isLoading' = FALSE
                  /\ remote' = remote
             ELSE /\ error' = None
                  /\ isLoading' = LoadingOnEntry
                  /\ remote' = Append(remote, call)

\* the user presses Analyze
Submit ==
  /\ AnalyzeEnabled(isLoading)
  /\ HandleAnalyze
  /\ UNCHANGED <<env, inputs, completed>>

RemoveAt(s, i) == SubSeq(s, 1, i - 1) \o SubSeq(s, i + 1, Len(s))

(* ---------- handleAnalyze after the await: result, catch, finally ---------- *)
RemoteSettles(i, outcome) ==
  /\ i \in 1..Len(remote)
  /\ remote' = RemoveAt(remote, i)
  /\ IF outcome.kind = "resolve"
     THEN IF IsSome(outcome.value)
          THEN analysisResult' = outcome.value /\ error' = error
          ELSE error' = Some(NoResultMsg) /\ analysisResult' = analysisResult
     ELSE error' = Some(CatchMessage(outcome)) /\ analysisResult' = analysisResult
  /\ isLoading' = FALSE
  /\ completed' = TRUE
  /\ ev' = [Event("settle") EXCEPT !.outcome = outcome]
  /\ UNCHANGED <<env, inputs, display>>

(* ---------- useEffect on [currentInputMode, audioFile] ---------- *)
ClearMetadataEffect(mode, file) ==
  IF mode = TEXT \/ file = None
  THEN /\ callMetadata' = None
       /\ identifiedSalesperson' = None
       /\ UNCHANGED relevantHistoryForDisplay
  ELSE UNCHANGED display

SetCurrentInputMode(mode) ==
  /\ mode # currentInputMode
  /\ currentInputMode' = mode
  /\ ClearMetadataEffect(mode, audioFile)
  /\ ev' = Event("setCurrentInputMode")
  /\ UNCHANGED <<env, transcriptText, audioFile, dataContext,
                 analysisResult, isLoading, error, remote, completed>>

SetAudioFile(file) ==
  /\ ~(file = None /\ audioFile = None)
  /\ audioFile' = file
  /\ ClearMetadataEffect(currentInputMode, file)
  /\ ev' = Event("setAudioFile")
  /\ UNCHANGED <<env, currentInputMode, transcriptText, dataContext,
                 analysisResult, isLoading, error, remote, completed>>

SetTranscriptText(text) ==
  /\ text # transcriptText
  /\ transcriptText' = text
  /\ ev' = Event("setTranscriptText")
  /\ UNCHANGED <<env, currentInputMode, audioFile, dataContext, display,
                 analysisResult, isLoading, error, remote, completed>>

SetDataContext(dc) ==
  /\ dc # dataContext
  /\ dataContext' = dc
  /\ ev' = Event("setDataContext")
  /\ UNCHANGED <<env, currentInputMode, transcriptText, audioFile, display,
                 analysisResult, isLoading, error, remote, completed>>

(* ---------- gapi.client.init(...).then / .catch ---------- *)
InitClientThen ==
  /\ gapiState = "loading"
  /\ gapiState' = "ready"
  /\ isGapiReady' = TRUE
  /\ ev' = Event("initClientThen")
  /\ UNCHANGED <<apiKey, inputs, display, analysisResult, isLoading, error,
                 remote, completed>>

InitClientCatch ==
  /\ gapiState = "loading"
  /\ gapiState' = "failed"
  /\ error' = Some(GoogleMsg)
  /\ isGapiReady' = FALSE
  /\ ev' = Event("initClientCatch")
  /\ UNCHANGED <<apiKey, inputs, display, analysisResult, isLoading,
                 remote, completed>>

Next ==
  \/ Submit
  \/ \E i \in 1..Len(remote), outcome \in RemoteOutcomes : RemoteSettles(i, outcome)
  \/ \E mode \in InputMode : SetCurrentInputMode(mode)
  \/ \E file \in {None} \cup {Some(f) : f \in Files} : SetAudioFile(file)
  \/ \E text \in Texts : SetTranscriptText(text)
  \/ \E dc \in {None} \cup {Some(d) : d \in DataContexts} : SetDataContext(dc)
  \/ InitClientThen
  \/ InitClientCatch

Spec == Init /\ [][Next]_vars

(* ======================= properties ======================= *)
Last(q) == q[Len(q)]
AfterAnalyze == ev.name = "analyze"
AfterSettle == ev.name = "settle"
\* the two sides of a call, read off the metadata by direction
SalespersonSide(meta) ==
  IF meta.callType = Outbound THEN meta.sourcePhone ELSE meta.destinationPhone
CustomerSide(meta) ==
  IF meta.callType = Outbound THEN meta.destinationPhone ELSE meta.sourcePhone
OnlyWhitespace(text) == \A i \in 1..Len(text) : text[i] = " "

\* C1: with the API key configured, a run in TEXT mode with an empty or
\* whitespace-only transcript, or in AUDIO mode with no file, invokes no remote
\* analysis function and ends with the mode's message in error, analysisResult
\* null and isLoading false.
C1_ValidationFailureNoRemoteCall ==
  (AfterAnalyze /\ apiKey /\
     \/ currentInputMode = TEXT /\ OnlyWhitespace(transcriptText)
     \/ currentInputMode = AUDIO /\ audioFile = None)
  => /\ ~ev.called
     /\ remote = <<>>
     /\ error = Some(IF currentInputMode = TEXT THEN PasteMsg ELSE UploadMsg)
     /\ analysisResult = None
     /\ ~isLoading

C1_Witness ==
  /\ AfterAnalyze /\ apiKey
  /\ currentInputMode = TEXT
  /\ transcriptText = <<" ", " ">>
  /\ error = Some(PasteMsg)

\* C2: without the API key every run is rejected at once: nothing is parsed or
\* matched, no remote call is made, error is the API-key message,
\* analysisResult is null and isLoading is false, whatever the inputs are.
C2_MissingKeyRejectsRun ==
  (AfterAnalyze /\ ~apiKey)
  => /\ ~ev.called /\ ~ev.parsed
     /\ ev.spField = "none" /\ ev.custField = "none"
     /\ remote = <<>>
     /\ callMetadata = None /\ identifiedSalesperson = None
     /\ relevantHistoryForDisplay = None
     /\ error = Some(ApiKeyMsg)
     /\ analysisResult = None
     /\ ~isLoading

C2_Witness ==
  /\ AfterAnalyze /\ ~apiKey
  /\ currentInputMode = AUDIO
  /\ audioFile = Some([name |-> FieldsOf(Outbound, Ph1, Ph2)])
  /\ IsSome(dataContext) /\ Get(dataContext).salespersons # <<>>
  /\ error = Some(ApiKeyMsg)

\* C3: when the remote call settles the run is over with isLoading false: a
\* truthy result is stored and error is null; a falsy result leaves
\* analysisResult null and error the "no result" message; a rejection leaves
\* analysisResult null and error "Analysis failed: <message>", or the unknown-
\* error fallback when the error carries no message.
C3_RunEndsSucceededOrFailed ==
  AfterSettle
  => /\ ~isLoading
     /\ IF ev.outcome.kind = "resolve"
        THEN IF IsSome(ev.outcome.value)
             THEN analysisResult = ev.outcome.value /\ error = None
             ELSE analysisResult = None /\ error = Some(NoResultMsg)
        ELSE /\ analysisResult = None
             /\ error = Some(IF ev.outcome.message # ""
                             THEN AnalysisFailedPrefix \o ev.outcome.message
                             ELSE UnknownMsg)

\* C4: in AUDIO mode a selected file whose name does not parse is no error:
\* analyzeAudioFile is invoked with salesperson null and history null, and
\* callMetadata, identifiedSalesperson and relevantHistoryForDisplay are null,
\* whatever the data context holds.
C4_UnparsedNameStillAnalyzed ==
  (AfterAnalyze /\ apiKey /\ currentInputMode = AUDIO /\ IsSome(audioFile)
     /\ parseCallFilename(Get(audioFile).name) = None)
  => /\ ev.called
     /\ remote # <<>>
     /\ Last(remote).fn = "analyzeAudioFile"
     /\ Last(remote).input = audioFile
     /\ Last(remote).salesperson = None
     /\ Last(remote).history = None
     /\ callMetadata = None
     /\ identifiedSalesperson = None
     /\ relevantHistoryForDisplay = None

C4_Witness ==
  /\ AfterAnalyze /\ apiKey /\ currentInputMode = AUDIO
  /\ audioFile = Some([name |-> BadName])
  /\ IsSome(dataContext) /\ Get(dataContext).customerHistory # <<>>
  /\ Len(remote) = 1

\* C5: for an outbound call the salesperson is matched on sourcePhone and the
\* history filtered on destinationPhone; for an inbound call it is the other
\* way round; the two sides are never the same field.
C5_DirectionSelectsSides ==
  (AfterAnalyze /\ IsSome(callMetadata))
  => LET meta == Get(callMetadata)
         out == meta.callType = Outbound
     IN /\ ev.spField \in {"none", IF out THEN "sourcePhone" ELSE "destinationPhone"}
        /\ ev.custField \in {"none", IF out THEN "destinationPhone" ELSE "sourcePhone"}
        /\ ev.spField = "none" \/ ev.spField # ev.custField
        /\ IsSome(identifiedSalesperson) =>
             StripNonDigits(Get(identifiedSalesperson).phone)
               = StripNonDigits(SalespersonSide(meta))
        /\ IsSome(relevantHistoryForDisplay) =>
             \A i \in 1..Len(Get(relevantHistoryForDisplay)) :
               StripNonDigits(Get(relevantHistoryForDisplay)[i].phone)
                 = StripNonDigits(CustomerSide(meta))

C5_Witness ==
  /\ AfterAnalyze /\ IsSome(callMetadata)
  /\ Get(callMetadata).callType = Inbound
  /\ Get(callMetadata).sourcePhone = Ph1
  /\ Get(callMetadata).destinationPhone = Ph2
  /\ ev.spField = "destinationPhone" /\ ev.custField = "sourcePhone"
  /\ relevantHistoryForDisplay = Some(<<>>)

C7_HistoryNeverNull ==
  (AfterAnalyze /\ IsSome(callMetadata) /\ IsSome(dataContext))
  => /\ IsSome(relevantHistoryForDisplay)
     /\ ev.called => Last(remote).history = relevantHistoryForDisplay

\* C7 amended: with metadata parsed and a data context present the relevant
\* history is a list (empty when no record matches) whenever the customer-side
\* phone is non-empty, and null when that phone is empty; the remote call gets
\* the same value.
C7_HistoryListForNonEmptyPhone ==
  (AfterAnalyze /\ IsSome(callMetadata) /\ IsSome(dataContext))
  => /\ IsSome(relevantHistoryForDisplay) <=> CustomerSide(Get(callMetadata)) # <<>>
     /\ ev.called => Last(remote).history = relevantHistoryForDisplay

C7_Witness ==
  /\ AfterAnalyze /\ IsSome(callMetadata) /\ IsSome(dataContext)
  /\ Get(dataContext).customerHistory # <<>>
  /\ CustomerSide(Get(callMetadata)) = Ph1
  /\ relevantHistoryForDisplay = Some(<<>>)
  /\ ev.called

\* C8: a record is selected only if its phone and the call-side phone are both
\* present with equal digits-only forms, and never when either phone is empty
\* or has an empty digits-only form.
C8_EmptyPhoneNeverMatches ==
  (AfterAnalyze /\ IsSome(callMetadata))
  => LET meta == Get(callMetadata)
         Sound(recordPhone, callPhone) ==
           /\ recordPhone # <<>> /\ callPhone # <<>>
           /\ StripNonDigits(recordPhone) = StripNonDigits(callPhone)
           /\ StripNonDigits(recordPhone) # <<>>
     IN /\ IsSome(identifiedSalesperson) =>
             Sound(Get(identifiedSalesperson).phone, SalespersonSide(meta))
        /\ IsSome(relevantHistoryForDisplay) =>
             \A i \in 1..Len(Get(relevantHistoryForDisplay)) :
               Sound(Get(relevantHistoryForDisplay)[i].phone, CustomerSide(meta))

\* C9: whenever callMetadata is null, identifiedSalesperson and
\* relevantHistoryForDisplay are null too.
C9_ContextFollowsMetadata ==
  callMetadata = None
  => identifiedSalesperson = None /\ relevantHistoryForDisplay = None

\* C10: once an analysis has completed and nothing is loading, exactly one of
\* analysisResult and error is non-null.
C10_ExactlyOneOutcome ==
  (~isLoading /\ completed) => (IsSome(analysisResult) # IsSome(error))

====
